---- MODULE Spec2Model ----
(***************************************************************************)
(* The pass-through encoded-frame decode bridge of webosose/chromium84:    *)
(* media::WebRtcPassThroughVideoDecoder                                    *)
(* (media/webrtc/neva/webrtc_pass_through_video_decoder.cc) and the part   *)
(* of media::WebMediaPlayerWebRTC that sends it status notifications.      *)
(*                                                                         *)
(* Three threads touch the decoder:                                        *)
(*   - the caller (WebRTC decoding thread): InitDecode, Decode,            *)
(*     RegisterDecodeCompleteCallback, Release, one call at a time;        *)
(*   - main_task_runner_: runs the posted DecodeOnMediaThread tasks, one   *)
(*     after the other;                                                    *)
(*   - the loop the decoder was constructed on: runs the posted            *)
(*     OnMediaPlayerNotifyCb tasks (media_player_status_cb_ is bound to    *)
(*     that loop with BindToCurrentLoop).                                  *)
(* A step of the model is one stretch of a handler between two points      *)
(* where another thread can observe or change the shared fields.           *)
(***************************************************************************)
EXTENDS Integers, Sequences, FiniteSets, TLC

\* Program constants.
kMaxPendingFrames == 8
kMaxDecodeHistory == 32
kMaxConsecutiveErrors == 60

\* Bounds of the model.
\* Frames admitted to pending_frames_ in one run of Spec.
MaxFrames == 2
\* Frames admitted in one run of OverflowSpec: a full queue and one more.
MaxOverflowFrames == 9
\* Frames admitted in one run of ResumeSpec.
MaxResumeFrames == 2
\* Frames admitted in one run of QueueSpec.
MaxQueueFrames == 9
\* Status notifications posted and not yet run.
MaxStatusTasks == 1
\* Frames admitted in one run of PlayerSpec.
MaxPlayerFrames == 3
\* Frames admitted in one run of HistorySpec: more than kMaxDecodeHistory.
MaxHistoryFrames == 34
\* Frames the caller of HistorySpec leaves waiting in pending_frames_.
MaxHistoryPending == 2
\* Frames admitted in one run of HealSpec: an overflow, then a key frame
\* (kMaxPendingFrames + 1).
MaxHealFrames == 9
\* Frames admitted in one run of CounterSpec: enough for two overflows
\* behind a frame the drain has taken (2 * kMaxPendingFrames + 2).
MaxCounterFrames == 18

\* CodecSpec: frames admitted by the decoder, and the size of the player's
\* state up to which the other decoder hands it a frame.
MaxCodecFrames == 2
MaxOtherFrames == 4

\* Frames admitted in one run of DrainSpec: enough for the history to evict
\* (kMaxDecodeHistory + 2).
MaxDrainFrames == 34

\* Frames admitted in one run of LiveSpec: enough for an overflow and a
\* frame after it (kMaxPendingFrames + 1).
MaxLiveFrames == 9

\* Frames admitted in one run of SuspendSpec.
MaxSuspendFrames == 3

\* TeardownSpec: frames admitted by the decoder, and the size of the
\* player's state up to which the other decoder hands it a frame.
MaxTeardownFrames == 1
MaxTeardownOther == 4

VARIABLES
  \* ---- WebRtcPassThroughVideoDecoder fields
  media_decoder_available_,
  key_frame_required_,
  frame_size_,
  video_codec_type_,
  consecutive_error_count_,
  pending_frames_,
  decode_timestamps_,
  decode_complete_callback_,
  lock_,
  \* ---- tasks posted and not yet run
  main_tasks,      \* DecodeOnMediaThread tasks on main_task_runner_
  status_tasks,    \* OnMediaPlayerNotifyCb tasks, in posting order
  \* ---- the caller thread: the call in progress
  api_pc,
  api_input,
  api_result,
  \* ---- the DecodeOnMediaThread task in progress
  drain_pc,
  drain_frames,    \* its local pending_frames
  \* ---- WebMediaPlayerWebRTC fields
  is_suspended_,
  media_player_status_cb_,
  media_platform_api_,      \* 0 (null), or the number of the pipeline made
  video_codec_,             \* the player's video_codec_
  pipeline_running_,
  pipeline_status_,
  is_destroying_,
  pending_encoded_frames_,
  \* ---- the external pipeline (media::MediaPlatformAPI)
  api_init,        \* "none": Initialize not called on the current pipeline;
                   \* "pending": called and not answered; "finalized":
                   \* Finalize called on it by a HandleEncodedFrame that
                   \* replaces it; "releasing": Finalize called on it by
                   \* ReleaseMediaPlatformAPI; else the status it answered
                   \* with
  \* ---- the player's tasks posted and not yet run, in posting order
  render_tasks,    \* on the player's main_task_runner_
  media_tasks,     \* on media_task_runner_
  \* ---- frames passed to decode_complete_callback_ and on their way to
  \* ---- WebMediaPlayerWebRTC::HandleVideoFrame, in order
  to_player,
  \* ---- observation (history variables, no field of the program)
  admitted,        \* timestamps pushed to pending_frames_, in order
  delivered,       \* timestamps passed to decode_complete_callback_, in order
  dropped,         \* timestamps cleared out of pending_frames_
  discarded,       \* timestamps discarded by ReturnEncodedFrame
  overflow_wait,   \* "armed": an overflow happened and no key frame has
                   \* passed the key-frame rule of Decode since; else "none"
  release_mark,    \* number of frames admitted when Release last returned
  resume_wait,     \* a resume happened and no key frame was admitted since
  layer_fallback,  \* Decode has answered FALLBACK_SOFTWARE by the
                   \* spatial-layer rule
  fed              \* the frames passed to MediaPlatformAPI::Feed, in order,
                   \* each with the pipeline's number and its api_init then

decoder_vars == <<media_decoder_available_, key_frame_required_, frame_size_,
                  video_codec_type_, consecutive_error_count_, pending_frames_,
                  decode_timestamps_, decode_complete_callback_, lock_>>
task_vars == <<main_tasks, status_tasks>>
api_vars == <<api_pc, api_input, api_result>>
drain_vars == <<drain_pc, drain_frames>>
player_vars == <<is_suspended_, media_player_status_cb_>>
obs_vars == <<admitted, delivered, dropped, discarded, overflow_wait,
              release_mark, resume_wait, layer_fallback>>
pipeline_fields == <<media_platform_api_, video_codec_, pipeline_running_,
                     pipeline_status_, is_destroying_,
                     pending_encoded_frames_, api_init>>
pipeline_tasks == <<render_tasks, media_tasks>>
pipeline_vars == <<pipeline_fields, pipeline_tasks, to_player, fed>>
vars == <<decoder_vars, task_vars, api_vars, drain_vars, player_vars, obs_vars,
          pipeline_vars>>

\* ------------------------------------------------------------------ values

WEBRTC_VIDEO_CODEC_OK == "OK"
WEBRTC_VIDEO_CODEC_ERROR == "ERROR"
WEBRTC_VIDEO_CODEC_NO_OUTPUT == "NO_OUTPUT"
WEBRTC_VIDEO_CODEC_ERR_PARAMETER == "ERR_PARAMETER"
WEBRTC_VIDEO_CODEC_UNINITIALIZED == "UNINITIALIZED"
WEBRTC_VIDEO_CODEC_FALLBACK_SOFTWARE == "FALLBACK_SOFTWARE"

NoInput == [call |-> "none"]

\* The frames a run of Spec hands to Decode: complete or not, key or not,
\* with an empty (0) or a usable (1) encoded size, on spatial layer 0 or 1.
EncodedImages ==
  [key : BOOLEAN, size : {0, 1}, complete : BOOLEAN, spatial : {0, 1}]

CodecTypes == {"kVideoCodecVP8", "kVideoCodecVP9"}

StatusTypes == {"kPipelineError", "kKeyFrameRequest"}

\* Fault: at capacity the newest entry is evicted, not the oldest.
RecordTimestamp_newest(history, ts) ==
  LET kept == IF Len(history) >= kMaxDecodeHistory
              THEN SubSeq(history, 1, kMaxDecodeHistory - 1)
              ELSE history
  IN Append(kept, ts)

\* decode_timestamps_ after lines 273-276: evict from the front while the
\* history is at capacity, then append.
RecordTimestamp(history, ts) ==
  LET kept == IF Len(history) >= kMaxDecodeHistory
              THEN SubSeq(history, Len(history) - kMaxDecodeHistory + 2,
                          Len(history))
              ELSE history
  IN Append(kept, ts)

\* base::Contains(decode_timestamps_, timestamp).
Contains(history, ts) == \E i \in 1..Len(history) : history[i] = ts

\* media::VideoFrame::WrapExternalData(PIXEL_FORMAT_I420, frame_size_,
\* gfx::Rect(frame_size_), frame_size_, data, size, timestamp): no frame for
\* an empty frame_size_ (an I420 frame needs a non-empty coded size).
WrapExternalData(size) == size # 0

Timestamps(frames) == [i \in 1..Len(frames) |-> frames[i].ts]

Range(s) == {s[i] : i \in 1..Len(s)}

Last(s) == s[Len(s)]

\* ------------------------------------------------------------------ Init

\* The decoder and the player with nothing in flight: the decoder with the
\* given codec type and callback.
Quiet(codec_type, callback) ==
  /\ media_decoder_available_ = TRUE
  /\ key_frame_required_ = TRUE
  /\ frame_size_ = 0
  /\ video_codec_type_ = codec_type
  /\ consecutive_error_count_ = 0
  /\ pending_frames_ = <<>>
  /\ decode_timestamps_ = <<>>
  /\ decode_complete_callback_ = callback
  /\ lock_ = "free"
  /\ main_tasks = 0
  /\ status_tasks = <<>>
  /\ api_pc = "idle"
  /\ api_input = NoInput
  /\ api_result = "none"
  /\ drain_pc = "idle"
  /\ drain_frames = <<>>
  /\ is_suspended_ = FALSE
  /\ media_player_status_cb_ = FALSE
  /\ admitted = <<>>
  /\ delivered = <<>>
  /\ dropped = {}
  /\ discarded = {}
  /\ overflow_wait = "none"
  /\ release_mark = 0
  /\ resume_wait = FALSE
  /\ layer_fallback = FALSE
  /\ media_platform_api_ = 0
  /\ video_codec_ = "kUnknownVideoCodec"
  /\ pipeline_running_ = FALSE
  /\ pipeline_status_ = "PIPELINE_OK"
  /\ is_destroying_ = FALSE
  /\ pending_encoded_frames_ = <<>>
  /\ api_init = "none"
  /\ render_tasks = <<>>
  /\ media_tasks = <<>>
  /\ to_player = <<>>
  /\ fed = <<>>

\* The decoder as its constructor leaves it (lines 99-109).
Init == Quiet("kVideoCodecGeneric", "null")

\* The decoder once InitDecode (for VP9) and RegisterDecodeCompleteCallback
\* have returned: the state in which WebRTC starts to call Decode.
Started == Quiet("kVideoCodecVP9", "callback")

\* A call through a null decode_complete_callback_ ends the process: no
\* handler runs after it.
Alive == drain_pc # "crashed"

\* ------------------------------------------------- the caller thread

\* Fault: the spatial-layer test ignores the codec.
SpatialLayerRule_any_codec(codec_type, img) == img.spatial > 0

\* The test of lines 144-145; img.spatial is SpatialIndex().value_or(0).
SpatialLayerRule(codec_type, img) ==
  codec_type = "kVideoCodecVP9" /\ img.spatial > 0

\* Fault: only missing_frames marks a frame as broken.
MissingOrIncomplete_missing_only(img, missing) == missing

\* The test of line 151: missing_frames || !input_image._completeFrame.
MissingOrIncomplete(img, missing) == missing \/ ~img.complete

\* Fault: while a key frame is required every frame is refused.
KeyFrameRule_every_frame(required, img) == required

\* The tests of lines 157 and 161: a non-key frame while a key frame is
\* required.
KeyFrameRule(required, img) == required /\ ~img.key

\* Fault: broken frames are tested for first.
AdmissionRule_broken_first(available, codec_type, required, img, missing) ==
  IF MissingOrIncomplete(img, missing) THEN "broken"
  ELSE IF ~available THEN "unavailable"
  ELSE IF SpatialLayerRule(codec_type, img) THEN "spatial layer"
  ELSE IF KeyFrameRule(required, img) THEN "key frame required"
  ELSE "admit"

\* The tests of lines 136, 144, 151 and 157-161 in their order: the first
\* one that makes Decode return, or "admit".
AdmissionRule(available, codec_type, required, img, missing) ==
  IF ~available THEN "unavailable"
  ELSE IF SpatialLayerRule(codec_type, img) THEN "spatial layer"
  ELSE IF MissingOrIncomplete(img, missing) THEN "broken"
  ELSE IF KeyFrameRule(required, img) THEN "key frame required"
  ELSE "admit"

\* Decode, lines 131-205: the admission rules, and the frame built from the
\* input. `ts` is input_image.Timestamp().
DecodeCall(img, missing_frames, ts) ==
  /\ Alive
  /\ UNCHANGED pipeline_vars
  /\ api_pc = "idle"
  /\ api_input' = [call |-> "Decode", key |-> img.key, size |-> img.size,
                   complete |-> img.complete, spatial |-> img.spatial,
                   missing |-> missing_frames, ts |-> ts,
                   available |-> media_decoder_available_,
                   resume_wait |-> resume_wait, overflow |-> FALSE,
                   count |-> 0]
  /\ LET rule == AdmissionRule(media_decoder_available_, video_codec_type_,
                               key_frame_required_, img, missing_frames)
     IN
     /\ IF rule \in {"unavailable", "spatial layer"}
          THEN /\ api_result' = WEBRTC_VIDEO_CODEC_FALLBACK_SOFTWARE
               /\ api_pc' = "ret"
               /\ UNCHANGED <<key_frame_required_, frame_size_, overflow_wait>>
        ELSE IF rule \in {"broken", "key frame required"}
          THEN /\ api_result' = WEBRTC_VIDEO_CODEC_ERROR
               /\ api_pc' = "ret"
               /\ UNCHANGED <<key_frame_required_, frame_size_, overflow_wait>>
        ELSE /\ key_frame_required_' = FALSE
             /\ frame_size_' = IF img.key THEN img.size ELSE frame_size_
             /\ overflow_wait' = IF img.key THEN "none" ELSE overflow_wait
             /\ IF WrapExternalData(frame_size_')
                  THEN /\ api_pc' = "lock"
                       /\ api_result' = "none"
                  ELSE /\ api_pc' = "ret"
                       /\ api_result' = WEBRTC_VIDEO_CODEC_NO_OUTPUT
     /\ layer_fallback' = (layer_fallback \/ rule = "spatial layer")
  /\ UNCHANGED <<media_decoder_available_, video_codec_type_,
                 consecutive_error_count_, pending_frames_, decode_timestamps_,
                 decode_complete_callback_, lock_>>
  /\ UNCHANGED <<task_vars, drain_vars, player_vars>>
  /\ UNCHANGED <<admitted, delivered, dropped, discarded, release_mark,
                 resume_wait>>

\* Decode, line 209: base::AutoLock auto_lock(lock_).
DecodeLock ==
  /\ Alive
  /\ UNCHANGED pipeline_vars
  /\ api_pc = "lock"
  /\ lock_ = "free"
  /\ lock_' = "caller"
  /\ api_pc' = "queue"
  /\ UNCHANGED <<media_decoder_available_, key_frame_required_, frame_size_,
                 video_codec_type_, consecutive_error_count_, pending_frames_,
                 decode_timestamps_, decode_complete_callback_>>
  /\ UNCHANGED <<api_input, api_result>>
  /\ UNCHANGED <<task_vars, drain_vars, player_vars, obs_vars>>

\* Fault: the capacity test lets one frame too many in.
QueueIsFull_late(queue) == Len(queue) > kMaxPendingFrames

\* The test of line 211.
QueueIsFull(queue) == Len(queue) >= kMaxPendingFrames

\* The test of line 219, on the incremented counter.
TooManyErrors(count) == count > kMaxConsecutiveErrors

\* Fault: an overflow drops only the oldest frame.
QueueAfterOverflow_oldest(queue) == Tail(queue)

\* pending_frames_ after the overflow of line 214.
QueueAfterOverflow(queue) == <<>>

\* Fault: an overflow does not re-arm the key-frame requirement.
KeyFrameRequiredAfterOverflow_kept(required) == required

\* key_frame_required_ after the overflow of line 218.
KeyFrameRequiredAfterOverflow(required) == TRUE

\* Decode, lines 211-229, under lock_: when the queue is full drop
\* everything, arm the key-frame requirement and read the error counter;
\* else push the frame and leave the block, releasing the lock.
DecodeQueue ==
  /\ Alive
  /\ UNCHANGED pipeline_vars
  /\ api_pc = "queue"
  /\ IF QueueIsFull(pending_frames_)
       THEN /\ pending_frames_' = QueueAfterOverflow(pending_frames_)
            /\ key_frame_required_' =
                 KeyFrameRequiredAfterOverflow(key_frame_required_)
            /\ api_input' =
                 [api_input EXCEPT !.overflow = TRUE,
                                   !.count = consecutive_error_count_]
            /\ api_pc' = "count"
            /\ UNCHANGED <<lock_, api_result>>
            /\ dropped' = dropped \cup (Range(Timestamps(pending_frames_))
                                        \ Range(Timestamps(pending_frames_')))
            /\ overflow_wait' = "armed"
            /\ UNCHANGED <<admitted, resume_wait>>
       ELSE /\ pending_frames_' =
                 Append(pending_frames_, [ts |-> api_input.ts,
                                          key |-> api_input.key])
            /\ lock_' = "free"
            /\ api_pc' = "post"
            /\ api_result' = "none"
            /\ admitted' = Append(admitted, api_input.ts)
            /\ resume_wait' = IF api_input.key THEN FALSE ELSE resume_wait
            /\ UNCHANGED <<key_frame_required_, dropped, api_input,
                           overflow_wait>>
  /\ UNCHANGED <<media_decoder_available_, frame_size_, video_codec_type_,
                 consecutive_error_count_, decode_timestamps_,
                 decode_complete_callback_>>
  /\ UNCHANGED <<task_vars, drain_vars, player_vars>>
  /\ UNCHANGED <<delivered, discarded, release_mark, layer_fallback>>

\* Decode, lines 219-228, still under lock_: the increment stores the
\* value DecodeQueue read plus one (consecutive_error_count_ is a plain
\* int that ReturnEncodedFrame writes without lock_), and the stored value
\* decides between FALLBACK_SOFTWARE and ERROR.
DecodeCount ==
  /\ Alive
  /\ UNCHANGED pipeline_vars
  /\ api_pc = "count"
  /\ consecutive_error_count_' = api_input.count + 1
  /\ IF TooManyErrors(consecutive_error_count_')
       THEN /\ decode_timestamps_' = <<>>
            /\ api_result' = WEBRTC_VIDEO_CODEC_FALLBACK_SOFTWARE
       ELSE /\ decode_timestamps_' = decode_timestamps_
            /\ api_result' = WEBRTC_VIDEO_CODEC_ERROR
  /\ lock_' = "free"
  /\ api_pc' = "ret"
  /\ UNCHANGED <<media_decoder_available_, key_frame_required_, frame_size_,
                 video_codec_type_, pending_frames_,
                 decode_complete_callback_>>
  /\ UNCHANGED <<task_vars, api_input, drain_vars, player_vars, obs_vars>>

\* Fault: Decode posts no drain.
TasksAfterPost_none(tasks) == tasks

\* Fault: Decode posts two drains.
TasksAfterPost_twice(tasks) == tasks + 2

\* The DecodeOnMediaThread tasks waiting after the PostTask of lines
\* 231-234: one more.
TasksAfterPost(tasks) == tasks + 1

\* Decode, lines 231-236: post DecodeOnMediaThread and return OK.
DecodePost ==
  /\ Alive
  /\ UNCHANGED pipeline_vars
  /\ api_pc = "post"
  /\ main_tasks' = TasksAfterPost(main_tasks)
  /\ api_result' = WEBRTC_VIDEO_CODEC_OK
  /\ api_pc' = "ret"
  /\ UNCHANGED <<decoder_vars, status_tasks, api_input, drain_vars,
                 player_vars, obs_vars>>

\* Fault: InitDecode succeeds whatever the availability.
InitDecodeResult_ok(available) == WEBRTC_VIDEO_CODEC_OK

\* The status InitDecode returns for non-null settings, lines 127-128.
InitDecodeResult(available) ==
  IF available THEN WEBRTC_VIDEO_CODEC_OK ELSE WEBRTC_VIDEO_CODEC_UNINITIALIZED

\* InitDecode, lines 115-129. `codec_settings` is "null" or the codec type
\* of the settings.
InitDecode(codec_settings) ==
  /\ Alive
  /\ UNCHANGED pipeline_vars
  /\ api_pc = "idle"
  /\ api_input' = [call |-> "InitDecode", codec_settings |-> codec_settings,
                   available |-> media_decoder_available_]
  /\ api_pc' = "ret"
  /\ IF codec_settings = "null"
       THEN /\ api_result' = WEBRTC_VIDEO_CODEC_ERR_PARAMETER
            /\ UNCHANGED <<key_frame_required_, video_codec_type_>>
       ELSE /\ key_frame_required_' = TRUE
            /\ video_codec_type_' = codec_settings
            /\ api_result' = InitDecodeResult(media_decoder_available_)
  /\ UNCHANGED <<media_decoder_available_, frame_size_,
                 consecutive_error_count_, pending_frames_, decode_timestamps_,
                 decode_complete_callback_, lock_>>
  /\ UNCHANGED <<task_vars, drain_vars, player_vars, obs_vars>>

\* RegisterDecodeCompleteCallback, lines 239-245.
RegisterDecodeCompleteCallback(callback) ==
  /\ Alive
  /\ UNCHANGED pipeline_vars
  /\ api_pc = "idle"
  /\ api_input' = [call |-> "RegisterDecodeCompleteCallback",
                   available |-> media_decoder_available_]
  /\ api_pc' = "ret"
  /\ decode_complete_callback_' = callback
  /\ api_result' = IF media_decoder_available_
                   THEN WEBRTC_VIDEO_CODEC_OK
                   ELSE WEBRTC_VIDEO_CODEC_UNINITIALIZED
  /\ UNCHANGED <<media_decoder_available_, key_frame_required_, frame_size_,
                 video_codec_type_, consecutive_error_count_, pending_frames_,
                 decode_timestamps_, lock_>>
  /\ UNCHANGED <<task_vars, drain_vars, player_vars, obs_vars>>

\* Release, lines 247-250: the call, up to holding lock_.
ReleaseLock ==
  /\ Alive
  /\ UNCHANGED pipeline_vars
  /\ api_pc = "idle"
  /\ lock_ = "free"
  /\ lock_' = "caller"
  /\ api_pc' = "release"
  /\ api_input' = [call |-> "Release",
                   available |-> media_decoder_available_,
                   again |-> release_mark > 0 /\ release_mark = Len(admitted)]
  /\ api_result' = "none"
  /\ UNCHANGED <<media_decoder_available_, key_frame_required_, frame_size_,
                 video_codec_type_, consecutive_error_count_, pending_frames_,
                 decode_timestamps_, decode_complete_callback_>>
  /\ UNCHANGED <<task_vars, drain_vars, player_vars, obs_vars>>

\* The fields of the decoder that Release can see.
DecoderState ==
  [pending_frames_ |-> pending_frames_,
   decode_timestamps_ |-> decode_timestamps_,
   key_frame_required_ |-> key_frame_required_,
   consecutive_error_count_ |-> consecutive_error_count_,
   media_decoder_available_ |-> media_decoder_available_]

\* Fault: Release also marks the decoder unavailable.
ReleaseEffect_teardown(d) ==
  [state |-> [d EXCEPT !.pending_frames_ = <<>>,
                       !.decode_timestamps_ = <<>>,
                       !.media_decoder_available_ = FALSE],
   status |-> IF d.media_decoder_available_
              THEN WEBRTC_VIDEO_CODEC_OK
              ELSE WEBRTC_VIDEO_CODEC_UNINITIALIZED]

\* Release, lines 251-255, as a function of those fields: the fields it
\* leaves and the status it returns.
ReleaseEffect(d) ==
  [state |-> [d EXCEPT !.pending_frames_ = <<>>,
                       !.decode_timestamps_ = <<>>],
   status |-> IF d.media_decoder_available_
              THEN WEBRTC_VIDEO_CODEC_OK
              ELSE WEBRTC_VIDEO_CODEC_UNINITIALIZED]

\* Release, lines 251-256, under lock_.
ReleaseClear ==
  /\ Alive
  /\ UNCHANGED pipeline_vars
  /\ api_pc = "release"
  /\ LET r == ReleaseEffect(DecoderState)
     IN /\ pending_frames_' = r.state.pending_frames_
        /\ decode_timestamps_' = r.state.decode_timestamps_
        /\ key_frame_required_' = r.state.key_frame_required_
        /\ consecutive_error_count_' = r.state.consecutive_error_count_
        /\ media_decoder_available_' = r.state.media_decoder_available_
        /\ api_result' = r.status
  /\ lock_' = "free"
  /\ api_pc' = "ret"
  /\ dropped' = dropped \cup (Range(Timestamps(pending_frames_))
                              \ Range(Timestamps(pending_frames_')))
  /\ UNCHANGED <<frame_size_, video_codec_type_, decode_complete_callback_>>
  /\ UNCHANGED api_input
  /\ UNCHANGED <<task_vars, drain_vars, player_vars>>
  /\ UNCHANGED <<admitted, delivered, discarded, overflow_wait, release_mark,
                 resume_wait, layer_fallback>>

\* The call in progress returns api_result to the caller.
ApiReturn ==
  /\ Alive
  /\ UNCHANGED pipeline_vars
  /\ api_pc = "ret"
  /\ api_pc' = "idle"
  /\ api_input' = NoInput
  /\ api_result' = "none"
  /\ release_mark' = IF api_input.call = "Release" THEN Len(admitted)
                     ELSE release_mark
  /\ UNCHANGED <<decoder_vars, task_vars, drain_vars, player_vars>>
  /\ UNCHANGED <<admitted, delivered, dropped, discarded, overflow_wait,
                 resume_wait, layer_fallback>>

\* ------------------------------------------- main_task_runner_ (the drain)

\* DecodeOnMediaThread, lines 262-265: the next posted task starts and
\* takes lock_.
DrainLock ==
  /\ Alive
  /\ UNCHANGED pipeline_vars
  /\ drain_pc = "idle"
  /\ main_tasks > 0
  /\ lock_ = "free"
  /\ main_tasks' = main_tasks - 1
  /\ lock_' = "main"
  /\ drain_pc' = "swap"
  /\ UNCHANGED <<media_decoder_available_, key_frame_required_, frame_size_,
                 video_codec_type_, consecutive_error_count_, pending_frames_,
                 decode_timestamps_, decode_complete_callback_>>
  /\ UNCHANGED <<status_tasks, api_vars, drain_frames, player_vars, obs_vars>>

\* Fault: the drain keeps lock_ after the swap.
LockAfterSwap_held(holder) == holder

\* lock_ when the block of lines 264-267 closes: its AutoLock is destroyed.
LockAfterSwap(holder) == "free"

\* Fault: the drain takes only the front frame of the queue.
SwappedOut_front(queue) == IF queue = <<>> THEN <<>> ELSE <<Head(queue)>>

\* The local pending_frames after the swap of line 266: the whole queue.
SwappedOut(queue) == queue

\* DecodeOnMediaThread, lines 266-269: swap the queue out, release lock_,
\* and test the loop condition for the first time.
DrainSwap ==
  /\ Alive
  /\ UNCHANGED pipeline_vars
  /\ drain_pc = "swap"
  /\ drain_frames' = SwappedOut(pending_frames_)
  /\ pending_frames_' = drain_frames
  /\ lock_' = LockAfterSwap(lock_)
  /\ drain_pc' = IF drain_frames' = <<>> THEN "idle" ELSE "record"
  /\ UNCHANGED <<media_decoder_available_, key_frame_required_, frame_size_,
                 video_codec_type_, consecutive_error_count_,
                 decode_timestamps_, decode_complete_callback_>>
  /\ UNCHANGED <<task_vars, api_vars, player_vars, obs_vars>>

\* Fault: the loop takes the newest frame, not the oldest.
NextPendingFrame_newest(frames) == frames[Len(frames)]

\* The frame the loop of lines 269-280 handles next (line 270).
NextPendingFrame(frames) == Head(frames)

\* DecodeOnMediaThread, lines 270-276: record the front frame's timestamp.
DrainRecord ==
  /\ Alive
  /\ UNCHANGED pipeline_vars
  /\ drain_pc = "record"
  /\ decode_timestamps_' =
       RecordTimestamp(decode_timestamps_, NextPendingFrame(drain_frames).ts)
  /\ drain_pc' = "return"
  /\ UNCHANGED <<media_decoder_available_, key_frame_required_, frame_size_,
                 video_codec_type_, consecutive_error_count_, pending_frames_,
                 decode_complete_callback_, lock_>>
  /\ UNCHANGED <<task_vars, api_vars, drain_frames, player_vars, obs_vars>>

\* Fault: the history test is skipped.
IsDelivered_always(history, ts) == TRUE

\* The test of line 297: the frame goes to the callback.
IsDelivered(history, ts) == Contains(history, ts)

\* DecodeOnMediaThread, lines 278-280, with ReturnEncodedFrame, lines
\* 283-304: discard the frame or pass it to the callback, then pop it.
\* Calling through a null decode_complete_callback_ ends the process.
DrainReturn ==
  /\ Alive
  /\ drain_pc = "return"
  /\ LET frame == NextPendingFrame(drain_frames)
         rest == Tail(drain_frames)
         next_pc == IF rest = <<>> THEN "idle" ELSE "record"
     IN IF ~IsDelivered(decode_timestamps_, frame.ts)
          THEN /\ discarded' = discarded \cup {frame.ts}
               /\ drain_frames' = rest
               /\ drain_pc' = next_pc
               /\ UNCHANGED <<consecutive_error_count_, delivered>>
        ELSE IF decode_complete_callback_ = "null"
          THEN /\ drain_pc' = "crashed"
               /\ UNCHANGED <<consecutive_error_count_, delivered, discarded,
                              drain_frames>>
        ELSE /\ delivered' = Append(delivered, frame.ts)
             /\ consecutive_error_count_' = 0
             /\ drain_frames' = rest
             /\ drain_pc' = next_pc
             /\ UNCHANGED discarded
  /\ to_player' = IF delivered' # delivered
                  THEN Append(to_player, NextPendingFrame(drain_frames))
                  ELSE to_player
  /\ UNCHANGED <<pipeline_fields, pipeline_tasks, fed>>
  /\ UNCHANGED <<media_decoder_available_, key_frame_required_, frame_size_,
                 video_codec_type_, pending_frames_, decode_timestamps_,
                 decode_complete_callback_, lock_>>
  /\ UNCHANGED <<task_vars, api_vars, player_vars>>
  /\ UNCHANGED <<admitted, dropped, overflow_wait, release_mark, resume_wait,
                 layer_fallback>>

\* ----------------------------------------------- status notifications

\* media_player_status_cb_.Run(type): the callback of lines 107-108 posts
\* OnMediaPlayerNotifyCb(type) to the loop the decoder was made on.
PostStatus(type) == status_tasks' = Append(status_tasks, type)

\* Fault: any other notification makes the decoder available again.
AvailableAfterStatus_restored(type, available) == type # "kPipelineError"

\* media_decoder_available_ after the switch of lines 308-319.
AvailableAfterStatus(type, available) ==
  IF type = "kPipelineError" THEN FALSE ELSE available

\* OnMediaPlayerNotifyCb, lines 306-320: the next posted notification runs.
OnMediaPlayerNotifyCb ==
  /\ Alive
  /\ UNCHANGED pipeline_vars
  /\ status_tasks # <<>>
  /\ status_tasks' = Tail(status_tasks)
  /\ LET type == Head(status_tasks)
     IN /\ media_decoder_available_' =
             AvailableAfterStatus(type, media_decoder_available_)
        /\ key_frame_required_' =
             IF type = "kKeyFrameRequest" THEN TRUE ELSE key_frame_required_
  /\ UNCHANGED <<frame_size_, video_codec_type_, consecutive_error_count_,
                 pending_frames_, decode_timestamps_,
                 decode_complete_callback_, lock_>>
  /\ UNCHANGED <<main_tasks, api_vars, drain_vars, player_vars, obs_vars>>

\* ------------------------------------------------ WebMediaPlayerWebRTC

\* VideoFrameMetadata::CODEC_ID of the decoder's frames: its video_codec_
\* (line 203), fixed by its constructor (line 103).
CodecId == "kCodecVP9"

\* The CODEC_ID of the frames of a decoder made for another format.
OtherCodecId == "kCodecVP8"

\* A frame as the player reads it: timestamp, KEY_FRAME and CODEC_ID.
EncodedFrame(frame, codec) ==
  [ts |-> frame.ts, key |-> frame.key, codec |-> codec]

\* HandleVideoFrame, lines 272-306, for an encoded frame: the player keeps
\* the frame's status callback if it has none (set on every frame by line
\* 205 of the decoder), and posts HandleEncodedFrame unless it is suspended.
HandleVideoFrameOf(frame) ==
  /\ Alive
  /\ media_player_status_cb_' = TRUE
  /\ IF is_suspended_
       THEN /\ pending_encoded_frames_' = <<>>
            /\ UNCHANGED render_tasks
       ELSE /\ render_tasks' = Append(render_tasks, frame)
            /\ UNCHANGED pending_encoded_frames_
  /\ UNCHANGED <<decoder_vars, task_vars, api_vars, drain_vars, is_suspended_,
                 obs_vars>>
  /\ UNCHANGED <<media_platform_api_, video_codec_, pipeline_running_,
                 pipeline_status_, is_destroying_, api_init, media_tasks, fed>>

\* HandleVideoFrame for the next frame the decoder handed to its callback.
HandleVideoFrame ==
  /\ to_player # <<>>
  /\ to_player' = Tail(to_player)
  /\ HandleVideoFrameOf(EncodedFrame(Head(to_player), CodecId))

\* HandleVideoFrame, line 298, at the same time as OnPipelineFeed, lines
\* 541-544: the suspended player clears pending_encoded_frames_ without
\* frame_lock_ while the media thread swaps it out under frame_lock_. When
\* one of the two comes wholly first the outcome is that of HandleVideoFrame
\* and OnPipelineFeed in that order; when they overlap, the vector is torn
\* and the process ends.
HandleVideoFrameRace ==
  /\ Alive
  /\ is_suspended_
  /\ to_player # <<>>
  /\ media_tasks # <<>>
  /\ Head(media_tasks) = "OnPipelineFeed"
  /\ ~is_destroying_
  /\ drain_pc' = "crashed"
  /\ UNCHANGED <<decoder_vars, task_vars, api_vars, drain_frames, player_vars,
                 obs_vars, pipeline_vars>>

\* HandleVideoFrame for a frame of a decoder made for another format, once
\* the player has kept this decoder's status callback.
HandleOtherVideoFrame(key) ==
  /\ media_player_status_cb_
  /\ UNCHANGED to_player
  /\ HandleVideoFrameOf([ts |-> 0, key |-> key, codec |-> OtherCodecId])

\* Fault: a pipeline is made for any frame when there is none for its codec.
MakesPipeline_any_frame(frame) ==
  ~(media_platform_api_ # 0 /\ video_codec_ = frame.codec)

\* StartMediaPipeline, lines 470-494: a pipeline is made (and its
\* initialization posted) for a key frame when there is none for the
\* frame's codec.
MakesPipeline(frame) ==
  /\ ~(media_platform_api_ # 0 /\ video_codec_ = frame.codec)
  /\ frame.key

\* StartMediaPipeline, lines 479-484: a non-key frame in that situation
\* asks the decoder for a key frame.
RequestsKeyFrame(frame) ==
  /\ ~(media_platform_api_ # 0 /\ video_codec_ = frame.codec)
  /\ ~frame.key
  /\ media_player_status_cb_

\* The task at the head of the player's main_task_runner_ is a
\* HandleEncodedFrame that replaces the pipeline: CreateMediaPlatformAPI
\* (402-449) destroys the one there is before it makes another.
ReplacesPipeline ==
  /\ render_tasks # <<>>
  /\ pipeline_status_ = "PIPELINE_OK"
  /\ MakesPipeline(Head(render_tasks))
  /\ media_platform_api_ # 0

\* Fault: the teardown does not wait for the media thread.
TeardownDone_no_wait(tasks) == TRUE

\* DestroyMediaPlatformAPI, lines 459-465: the Signal task posted to the
\* media thread has run, which it does once every task posted before it
\* has.
TeardownDone(tasks) == tasks = <<>>

\* DestroyMediaPlatformAPI, lines 451-464, inside that HandleEncodedFrame:
\* Finalize is called on the pipeline, and the main thread waits for the
\* media thread to run what was posted to it.
DestroyMediaPlatformAPI ==
  /\ Alive
  /\ ReplacesPipeline
  /\ api_init # "finalized"
  /\ api_init' = "finalized"
  /\ UNCHANGED <<decoder_vars, task_vars, api_vars, drain_vars, player_vars,
                 obs_vars>>
  /\ UNCHANGED <<media_platform_api_, video_codec_, pipeline_running_,
                 pipeline_status_, is_destroying_, pending_encoded_frames_,
                 pipeline_tasks, to_player, fed>>

\* HandleEncodedFrame, lines 361-400, with StartMediaPipeline, lines
\* 470-494, and CreateMediaPlatformAPI, lines 402-449: the next task on the
\* player's main_task_runner_. When it replaces a pipeline it goes on once
\* DestroyMediaPlatformAPI has ended its wait (line 465).
HandleEncodedFrame ==
  /\ Alive
  /\ api_init # "releasing"
  /\ render_tasks # <<>>
  /\ render_tasks' = Tail(render_tasks)
  /\ LET frame == Head(render_tasks)
     IN IF pipeline_status_ # "PIPELINE_OK"
          THEN UNCHANGED <<media_platform_api_, video_codec_, api_init,
                           pending_encoded_frames_, media_tasks, status_tasks>>
        ELSE /\ ReplacesPipeline =>
                  api_init = "finalized" /\ TeardownDone(media_tasks)
             /\ IF MakesPipeline(frame)
                  THEN /\ video_codec_' = frame.codec
                       /\ media_platform_api_' = media_platform_api_ + 1
                       /\ api_init' = "none"
                  ELSE UNCHANGED <<video_codec_, media_platform_api_,
                                   api_init>>
             /\ IF RequestsKeyFrame(frame)
                  THEN PostStatus("kKeyFrameRequest")
                  ELSE UNCHANGED status_tasks
             /\ pending_encoded_frames_' =
                  IF ~pipeline_running_ /\ frame.key
                  THEN <<frame>>
                  ELSE Append(pending_encoded_frames_, frame)
             /\ media_tasks' =
                  (IF MakesPipeline(frame)
                   THEN Append(media_tasks, "InitMediaPlatformAPI")
                   ELSE media_tasks)
                  \o (IF pipeline_running_ THEN <<"OnPipelineFeed">>
                      ELSE <<>>)
  /\ UNCHANGED <<decoder_vars, main_tasks, api_vars, drain_vars, player_vars,
                 obs_vars>>
  /\ UNCHANGED <<pipeline_running_, pipeline_status_, is_destroying_,
                 to_player, fed>>

\* ReleaseMediaPlatformAPI, lines 514-532, up to the wait inside
\* DestroyMediaPlatformAPI (line 465): is_destroying_ is set, the pending
\* frames are dropped and Finalize is called on the pipeline. With no
\* pipeline DestroyMediaPlatformAPI returns at once (lines 454-455) and the
\* call ends here.
ReleaseMediaPlatformAPI ==
  /\ Alive
  /\ api_init \notin {"finalized", "releasing"}
  /\ is_destroying_' = TRUE
  /\ pending_encoded_frames_' = <<>>
  /\ IF media_platform_api_ = 0
       THEN /\ pipeline_running_' = FALSE
            /\ pipeline_status_' = "PIPELINE_OK"
            /\ UNCHANGED api_init
       ELSE /\ api_init' = "releasing"
            /\ UNCHANGED <<pipeline_running_, pipeline_status_>>
  /\ UNCHANGED <<decoder_vars, task_vars, api_vars, drain_vars, player_vars,
                 obs_vars>>
  /\ UNCHANGED <<media_platform_api_, video_codec_, pipeline_tasks, to_player,
                 fed>>

\* ReleaseMediaPlatformAPI, lines 465-467 and 530-531: the wait ends, the
\* handle is cleared and the pipeline's state reset.
ReleaseReturn ==
  /\ Alive
  /\ api_init = "releasing"
  /\ TeardownDone(media_tasks)
  /\ media_platform_api_' = 0
  /\ api_init' = "none"
  /\ pipeline_running_' = FALSE
  /\ pipeline_status_' = "PIPELINE_OK"
  /\ UNCHANGED <<decoder_vars, task_vars, api_vars, drain_vars, player_vars,
                 obs_vars>>
  /\ UNCHANGED <<video_codec_, is_destroying_, pending_encoded_frames_,
                 pipeline_tasks, to_player, fed>>

\* InitMediaPlatformAPI, lines 496-512, on the media thread: Initialize is
\* called on the pipeline; a finalized pipeline stays finalized.
InitMediaPlatformAPI ==
  /\ Alive
  /\ media_tasks # <<>>
  /\ Head(media_tasks) = "InitMediaPlatformAPI"
  /\ media_tasks' = Tail(media_tasks)
  /\ api_init' = IF api_init \in {"finalized", "releasing"}
                 THEN api_init
                 ELSE "pending"
  /\ UNCHANGED <<decoder_vars, task_vars, api_vars, drain_vars, player_vars,
                 obs_vars>>
  /\ UNCHANGED <<media_platform_api_, video_codec_, pipeline_running_,
                 pipeline_status_, is_destroying_, pending_encoded_frames_,
                 render_tasks, to_player, fed>>

\* The statuses a pipeline answers Initialize with.
InitStatuses == {"PIPELINE_OK", "PIPELINE_ERROR_INITIALIZATION_FAILED"}

\* OnMediaPlatformAPIInitialized, lines 726-745: the pipeline answers
\* Initialize with `status`.
OnMediaPlatformAPIInitialized(status) ==
  /\ Alive
  /\ api_init = "pending"
  /\ api_init' = status
  /\ IF is_destroying_ \/ media_platform_api_ = 0
       THEN UNCHANGED <<pipeline_running_, pipeline_status_, media_tasks>>
       ELSE /\ pipeline_running_' = TRUE
            /\ pipeline_status_' = status
            /\ media_tasks' = Append(media_tasks, "OnPipelineFeed")
  /\ UNCHANGED <<decoder_vars, task_vars, api_vars, drain_vars, player_vars,
                 obs_vars>>
  /\ UNCHANGED <<media_platform_api_, video_codec_, is_destroying_,
                 pending_encoded_frames_, render_tasks, to_player, fed>>

\* The record of a frame passed to MediaPlatformAPI::Feed.
Fed(frame) ==
  [ts |-> frame.ts, api |-> media_platform_api_, init |-> api_init]

\* Fault: the swapped-out frames are fed newest first.
FeedOrder_reversed(frames) ==
  [i \in 1..Len(frames) |-> frames[Len(frames) + 1 - i]]

\* The order in which the loop of lines 546-552 feeds the swapped-out
\* frames: from the front.
FeedOrder(frames) == frames

\* OnPipelineFeed, lines 534-554, on the media thread: the pending frames
\* are swapped out and fed to the pipeline in order.
OnPipelineFeed ==
  /\ Alive
  /\ media_tasks # <<>>
  /\ Head(media_tasks) = "OnPipelineFeed"
  /\ media_tasks' = Tail(media_tasks)
  /\ IF is_destroying_
       THEN UNCHANGED <<pending_encoded_frames_, fed>>
       ELSE /\ pending_encoded_frames_' = <<>>
            /\ fed' = fed \o [i \in 1..Len(pending_encoded_frames_) |->
                                Fed(FeedOrder(pending_encoded_frames_)[i])]
  /\ UNCHANGED <<decoder_vars, task_vars, api_vars, drain_vars, player_vars,
                 obs_vars>>
  /\ UNCHANGED <<media_platform_api_, video_codec_, pipeline_running_,
                 pipeline_status_, is_destroying_, api_init, render_tasks,
                 to_player>>

PipelineStatuses ==
  {"PIPELINE_ERROR_ABORT", "DECODER_ERROR_RESOURCE_IS_RELEASED",
   "PIPELINE_ERROR_DECODE"}

\* OnPipelineError, lines 759-762: the decoder is told of the error.
TellsDecoder(status) ==
  /\ media_player_status_cb_
  /\ status \in {"PIPELINE_ERROR_ABORT", "DECODER_ERROR_RESOURCE_IS_RELEASED"}

\* OnPipelineError, lines 747-777: tells the decoder of two of the
\* statuses, drops the pending frames and records the status.
OnPipelineError(status) ==
  /\ Alive
  /\ IF is_destroying_
       THEN UNCHANGED <<status_tasks, pending_encoded_frames_,
                        pipeline_running_, pipeline_status_>>
       ELSE /\ IF TellsDecoder(status)
                 THEN PostStatus("kPipelineError")
                 ELSE UNCHANGED status_tasks
            /\ pending_encoded_frames_' = <<>>
            /\ pipeline_running_' = FALSE
            /\ pipeline_status_' = status
  /\ UNCHANGED <<decoder_vars, main_tasks, api_vars, drain_vars, player_vars,
                 obs_vars>>
  /\ UNCHANGED <<media_platform_api_, video_codec_, is_destroying_, api_init,
                 pipeline_tasks, to_player, fed>>

\* OnRotationChanged, lines 345-359: requests a key frame.
OnRotationChanged ==
  /\ Alive
  /\ UNCHANGED pipeline_vars
  /\ IF media_player_status_cb_
       THEN PostStatus("kKeyFrameRequest")
       ELSE UNCHANGED status_tasks
  /\ UNCHANGED <<decoder_vars, main_tasks, api_vars, drain_vars, player_vars,
                 obs_vars>>

\* SuspendInternal, lines 556-582.
SuspendInternal ==
  /\ Alive
  /\ UNCHANGED pipeline_vars
  /\ ~is_suspended_
  /\ is_suspended_' = TRUE
  /\ UNCHANGED <<decoder_vars, task_vars, api_vars, drain_vars,
                 media_player_status_cb_, obs_vars>>

\* ResumeInternal, lines 584-608.
ResumeInternal ==
  /\ Alive
  /\ UNCHANGED pipeline_vars
  /\ is_suspended_
  /\ is_suspended_' = FALSE
  /\ IF media_player_status_cb_
       THEN PostStatus("kKeyFrameRequest")
       ELSE UNCHANGED status_tasks
  /\ resume_wait' = TRUE
  /\ UNCHANGED <<decoder_vars, main_tasks, api_vars, drain_vars,
                 media_player_status_cb_>>
  /\ UNCHANGED <<admitted, delivered, dropped, discarded, overflow_wait,
                 release_mark, layer_fallback>>

\* ---------------------------------------------------- specifications

\* The decoder under every interleaving of its three threads, for at most
\* MaxFrames admitted frames with increasing timestamps.
Next ==
  \/ \E img \in EncodedImages, missing_frames \in BOOLEAN :
       /\ Len(admitted) < MaxFrames
       /\ DecodeCall(img, missing_frames, Len(admitted) + 1)
  \/ DecodeLock
  \/ DecodeQueue
  \/ DecodePost
  \/ \E codec_settings \in CodecTypes \cup {"null"} :
       InitDecode(codec_settings)
  \/ RegisterDecodeCompleteCallback("callback")
  \/ ReleaseLock
  \/ ReleaseClear
  \/ ApiReturn
  \/ DrainLock
  \/ DrainSwap
  \/ DrainRecord
  \/ DrainReturn
  \/ /\ ~media_player_status_cb_
     /\ HandleVideoFrame
  \/ \E status \in PipelineStatuses :
       /\ Len(status_tasks) < MaxStatusTasks
       /\ OnPipelineError(status)
  \/ /\ Len(status_tasks) < MaxStatusTasks
     /\ OnRotationChanged
  \/ OnMediaPlayerNotifyCb

Spec == Init /\ [][Next]_vars


\* ---- the queue filled to its capacity

\* Complete frames of a started VP9 stream, on spatial layer 0 or 1, with an
\* empty or a usable encoded size.
OverflowImages ==
  [key : BOOLEAN, size : {0, 1}, complete : {TRUE}, spatial : {0, 1}]

\* The started decoder and its drain, for at most MaxOverflowFrames
\* admitted frames.
OverflowNext ==
  \/ \E img \in OverflowImages :
       /\ Len(admitted) < MaxOverflowFrames
       /\ DecodeCall(img, FALSE, Len(admitted) + 1)
  \/ DecodeLock
  \/ DecodeQueue
  \/ DecodeCount
  \/ DecodePost
  \/ ApiReturn
  \/ DrainLock
  \/ DrainSwap
  \/ DrainRecord
  \/ DrainReturn

OverflowSpec == Started /\ [][OverflowNext]_vars

\* ---- the main thread stalled: overflow after overflow

\* Complete frames on spatial layer 0.
EscImages == [key : BOOLEAN, size : {1}, complete : {TRUE}, spatial : {0}]

\* The frames that overflow the queue kMaxConsecutiveErrors + 1 times, and
\* one more.
EscFrames == kMaxPendingFrames * (kMaxConsecutiveErrors + 1) + 1

\* The started decoder while main_task_runner_ runs none of the posted
\* tasks.
EscNext ==
  \/ \E img \in EscImages :
       /\ Len(admitted) < EscFrames
       /\ DecodeCall(img, FALSE, Len(admitted) + 1)
  \/ DecodeLock
  \/ DecodeQueue
  \/ DecodeCount
  \/ DecodePost
  \/ ApiReturn

EscSpec == Started /\ [][EscNext]_vars

\* ---- suspend and resume of the player

ResumeImages == [key : BOOLEAN, size : {1}, complete : {TRUE}, spatial : {0}]

\* The started decoder, its drain and the player's suspend and resume.
ResumeNext ==
  \/ \E img \in ResumeImages :
       /\ Len(admitted) < MaxResumeFrames
       /\ DecodeCall(img, FALSE, Len(admitted) + 1)
  \/ DecodeLock
  \/ DecodeQueue
  \/ DecodePost
  \/ ApiReturn
  \/ DrainLock
  \/ DrainSwap
  \/ DrainRecord
  \/ DrainReturn
  \/ /\ ~media_player_status_cb_
     /\ HandleVideoFrame
  \/ SuspendInternal
  \/ /\ Len(status_tasks) < MaxStatusTasks
     /\ ResumeInternal
  \/ OnMediaPlayerNotifyCb

ResumeSpec == Started /\ [][ResumeNext]_vars

\* ---- Release and a pipeline error against a filling queue

\* Complete key frames of a usable size on spatial layer 0.
KeyImages == [key : {TRUE}, size : {1}, complete : {TRUE}, spatial : {0}]

\* The started decoder fed key frames, its drain, Release until one has
\* returned after an admitted frame, and a pipeline error once the player
\* has seen a frame.
QueueNext ==
  \/ \E img \in KeyImages :
       /\ Len(admitted) < MaxQueueFrames
       /\ DecodeCall(img, FALSE, Len(admitted) + 1)
  \/ DecodeLock
  \/ DecodeQueue
  \/ DecodeCount
  \/ DecodePost
  \/ /\ release_mark = 0
     /\ ReleaseLock
  \/ ReleaseClear
  \/ ApiReturn
  \/ DrainLock
  \/ DrainSwap
  \/ DrainRecord
  \/ DrainReturn
  \/ /\ ~media_player_status_cb_
     /\ HandleVideoFrame
  \/ /\ Len(status_tasks) < MaxStatusTasks
     /\ media_player_status_cb_
     /\ OnPipelineError("PIPELINE_ERROR_ABORT")
  \/ OnMediaPlayerNotifyCb

QueueSpec == Started /\ [][QueueNext]_vars

\* ---- the player's pipeline behind the decoder

PlayerImages == [key : BOOLEAN, size : {1}, complete : {TRUE}, spatial : {0}]

\* The started decoder, its drain, and the player with its pipeline: the
\* pipeline answers Initialize with any status, and reports runtime errors
\* once it has answered.
PlayerNext ==
  \/ \E img \in PlayerImages :
       /\ Len(admitted) < MaxPlayerFrames
       /\ DecodeCall(img, FALSE, Len(admitted) + 1)
  \/ DecodeLock
  \/ DecodeQueue
  \/ DecodePost
  \/ ApiReturn
  \/ DrainLock
  \/ DrainSwap
  \/ DrainRecord
  \/ DrainReturn
  \/ HandleVideoFrame
  \/ HandleEncodedFrame
  \/ InitMediaPlatformAPI
  \/ \E status \in InitStatuses : OnMediaPlatformAPIInitialized(status)
  \/ OnPipelineFeed
  \/ \E status \in PipelineStatuses :
       /\ Len(status_tasks) < MaxStatusTasks
       /\ media_platform_api_ # 0
       /\ api_init \in InitStatuses
       /\ pipeline_running_
       /\ OnPipelineError(status)
  \/ OnMediaPlayerNotifyCb

PlayerSpec == Started /\ [][PlayerNext]_vars

\* ---- a long run: the timestamp history fills up

\* The started decoder and its drain fed key frames, the caller never more
\* than MaxHistoryPending frames ahead of the drain.
HistoryNext ==
  \/ \E img \in KeyImages :
       /\ Len(admitted) < MaxHistoryFrames
       /\ Len(pending_frames_) < MaxHistoryPending
       /\ DecodeCall(img, FALSE, Len(admitted) + 1)
  \/ DecodeLock
  \/ DecodeQueue
  \/ DecodePost
  \/ ApiReturn
  \/ DrainLock
  \/ DrainSwap
  \/ DrainRecord
  \/ DrainReturn

HistorySpec == Started /\ [][HistoryNext]_vars


\* ---- the drain beside Release

\* HistorySpec with one Release at any moment once the history has filled.
DrainNext ==
  \/ \E img \in KeyImages :
       /\ Len(admitted) < MaxDrainFrames
       /\ Len(pending_frames_) < MaxHistoryPending
       /\ DecodeCall(img, FALSE, Len(admitted) + 1)
  \/ DecodeLock
  \/ DecodeQueue
  \/ DecodePost
  \/ /\ release_mark = 0
     /\ Len(decode_timestamps_) >= kMaxDecodeHistory
     /\ ReleaseLock
  \/ ReleaseClear
  \/ ApiReturn
  \/ DrainLock
  \/ DrainSwap
  \/ DrainRecord
  \/ DrainReturn

DrainSpec == Started /\ [][DrainNext]_vars


\* ---- the drain scheduled fairly

\* The started decoder fed key frames, with Release until one has returned
\* after an admitted frame, and its drain.
LiveNext ==
  \/ \E img \in KeyImages :
       /\ Len(admitted) < MaxLiveFrames
       /\ DecodeCall(img, FALSE, Len(admitted) + 1)
  \/ DecodeLock
  \/ DecodeQueue
  \/ DecodeCount
  \/ DecodePost
  \/ /\ release_mark = 0
     /\ ReleaseLock
  \/ ReleaseClear
  \/ ApiReturn
  \/ DrainLock
  \/ DrainSwap
  \/ DrainRecord
  \/ DrainReturn

\* main_task_runner_ runs the tasks posted to it, and a call that holds
\* lock_ or has pushed its frame goes on to release it and to post.
LiveFairness ==
  /\ WF_vars(DrainLock)
  /\ WF_vars(DrainSwap)
  /\ WF_vars(DrainRecord)
  /\ WF_vars(DrainReturn)
  /\ WF_vars(DecodeQueue)
  /\ WF_vars(DecodeCount)
  /\ WF_vars(DecodePost)
  /\ WF_vars(ReleaseClear)

LiveSpec == Started /\ [][LiveNext]_vars /\ LiveFairness

\* ---- overflows while the drain is delivering

\* The started decoder and its drain fed key frames, for at most
\* MaxCounterFrames admitted frames.
CounterNext ==
  \/ \E img \in KeyImages :
       /\ Len(admitted) < MaxCounterFrames
       /\ DecodeCall(img, FALSE, Len(admitted) + 1)
  \/ DecodeLock
  \/ DecodeQueue
  \/ DecodeCount
  \/ DecodePost
  \/ ApiReturn
  \/ DrainLock
  \/ DrainSwap
  \/ DrainRecord
  \/ DrainReturn

CounterSpec == Started /\ [][CounterNext]_vars

\* ---- rejections, then a key frame

\* Complete frames of either kind on spatial layer 0, and key frames that
\* are incomplete, or of an empty size, or on spatial layer 1.
HealImages ==
  {img \in [key : BOOLEAN, size : {0, 1}, complete : BOOLEAN,
            spatial : {0, 1}] :
     \/ img.size = 1 /\ img.complete /\ img.spatial = 0
     \/ img.key /\ img.size = 1 /\ ~img.complete /\ img.spatial = 0
     \/ img.key /\ img.size = 0 /\ img.complete /\ img.spatial = 0
     \/ img.key /\ img.size = 1 /\ img.complete /\ img.spatial = 1}

\* The started decoder and its drain, for at most MaxHealFrames admitted
\* frames.
HealNext ==
  \/ \E img \in HealImages :
       /\ Len(admitted) < MaxHealFrames
       /\ DecodeCall(img, FALSE, Len(admitted) + 1)
  \/ DecodeLock
  \/ DecodeQueue
  \/ DecodeCount
  \/ DecodePost
  \/ ApiReturn
  \/ DrainLock
  \/ DrainSwap
  \/ DrainRecord
  \/ DrainReturn

HealSpec == Started /\ [][HealNext]_vars


\* ---- the player between two decoders of different formats

\* The started decoder with its drain and the player with its pipeline,
\* while a decoder made for another format hands its frames to the same
\* player: a stream that changes its codec, back and forth.
CodecNext ==
  \/ \E img \in PlayerImages :
       /\ Len(admitted) < MaxCodecFrames
       /\ DecodeCall(img, FALSE, Len(admitted) + 1)
  \/ DecodeLock
  \/ DecodeQueue
  \/ DecodePost
  \/ ApiReturn
  \/ DrainLock
  \/ DrainSwap
  \/ DrainRecord
  \/ DrainReturn
  \/ HandleVideoFrame
  \/ \E key \in BOOLEAN :
       /\ Len(render_tasks) + Len(pending_encoded_frames_) + Len(fed)
            + Len(status_tasks) + media_platform_api_ < MaxOtherFrames
       /\ HandleOtherVideoFrame(key)
  \/ DestroyMediaPlatformAPI
  \/ HandleEncodedFrame
  \/ InitMediaPlatformAPI
  \/ \E status \in InitStatuses : OnMediaPlatformAPIInitialized(status)
  \/ OnPipelineFeed
  \/ OnMediaPlayerNotifyCb

CodecSpec == Started /\ [][CodecNext]_vars


\* ---- the player suspended and resumed

\* The started decoder with its drain and the player with its pipeline,
\* while the player is suspended and resumed at any moment.
SuspendNext ==
  \/ \E img \in PlayerImages :
       /\ Len(admitted) < MaxSuspendFrames
       /\ DecodeCall(img, FALSE, Len(admitted) + 1)
  \/ DecodeLock
  \/ DecodeQueue
  \/ DecodePost
  \/ ApiReturn
  \/ DrainLock
  \/ DrainSwap
  \/ DrainRecord
  \/ DrainReturn
  \/ HandleVideoFrame
  \/ HandleVideoFrameRace
  \/ HandleEncodedFrame
  \/ InitMediaPlatformAPI
  \/ \E status \in InitStatuses : OnMediaPlatformAPIInitialized(status)
  \/ OnPipelineFeed
  \/ SuspendInternal
  \/ /\ Len(status_tasks) < MaxStatusTasks
     /\ ResumeInternal
  \/ OnMediaPlayerNotifyCb

SuspendSpec == Started /\ [][SuspendNext]_vars


\* ---- the pipeline torn down

\* CodecSpec with the pipeline released once at any moment.
TeardownNext ==
  \/ \E img \in PlayerImages :
       /\ Len(admitted) < MaxTeardownFrames
       /\ DecodeCall(img, FALSE, Len(admitted) + 1)
  \/ DecodeLock
  \/ DecodeQueue
  \/ DecodePost
  \/ ApiReturn
  \/ DrainLock
  \/ DrainSwap
  \/ DrainRecord
  \/ DrainReturn
  \/ HandleVideoFrame
  \/ \E key \in BOOLEAN :
       /\ Len(render_tasks) + Len(pending_encoded_frames_) + Len(fed)
            + Len(status_tasks) + media_platform_api_ < MaxTeardownOther
       /\ HandleOtherVideoFrame(key)
  \/ DestroyMediaPlatformAPI
  \/ HandleEncodedFrame
  \/ /\ ~is_destroying_
     /\ ReleaseMediaPlatformAPI
  \/ ReleaseReturn
  \/ InitMediaPlatformAPI
  \/ \E status \in InitStatuses : OnMediaPlatformAPIInitialized(status)
  \/ OnPipelineFeed
  \/ OnMediaPlayerNotifyCb

\* The media thread runs the tasks posted to it, and a thread whose wait
\* has ended goes on.
TeardownFairness ==
  /\ WF_vars(InitMediaPlatformAPI)
  /\ WF_vars(OnPipelineFeed)
  /\ WF_vars(HandleEncodedFrame)
  /\ WF_vars(ReleaseReturn)

TeardownSpec == Started /\ [][TeardownNext]_vars /\ TeardownFairness

\* ------------------------------------------------------------- properties

\* C1 (OverflowSpec). FIFO delivery: as long as no frame was cleared out of
\* the queue and none was discarded, the frames passed to the callback,
\* then those the running drain still holds, then those still queued, are
\* exactly the admitted frames in admission order: nothing is reordered,
\* duplicated or left out, within one drain or across drains.
C1_FifoDelivery ==
  (dropped = {} /\ discarded = {}) =>
    delivered \o Timestamps(drain_frames) \o Timestamps(pending_frames_)
      = admitted

\* Frames were delivered, and a later drain holds two frames while another
\* frame is queued behind them.
C1_Witness ==
  /\ dropped = {}
  /\ discarded = {}
  /\ Len(delivered) >= 3
  /\ Len(drain_frames) >= 2
  /\ pending_frames_ # <<>>

\* C2 (QueueSpec). Bounded queue: under every interleaving of Decode, the
\* drain, Release and the pipeline-error notification, pending_frames_
\* never holds more than kMaxPendingFrames frames.
C2_BoundedQueue == Len(pending_frames_) <= kMaxPendingFrames

\* A Decode holds the lock on a full queue.
C2_Witness ==
  /\ api_pc = "queue"
  /\ Len(pending_frames_) = kMaxPendingFrames

\* C3 (OverflowSpec). Overflow: when a Decode returns from an overflow, the
\* queue is empty, the decoder awaits a key frame, the kMaxPendingFrames
\* frames that were queued are all dropped and the incoming frame was not
\* admitted; and when no drain has started by then, exactly
\* kMaxPendingFrames frames had been admitted before, this is the only
\* overflow, and it returns ERROR.
C3_OverflowScenario ==
  (api_pc = "ret" /\ api_input.call = "Decode" /\ api_input.overflow) =>
    /\ pending_frames_ = <<>>
    /\ key_frame_required_
    /\ Len(admitted) >= kMaxPendingFrames
    /\ \A i \in (Len(admitted) - kMaxPendingFrames + 1)..Len(admitted) :
         admitted[i] \in dropped
    /\ api_input.ts \notin Range(admitted)
    /\ (main_tasks = Len(admitted) /\ drain_pc = "idle") =>
         /\ Len(admitted) = kMaxPendingFrames
         /\ dropped = 1..kMaxPendingFrames
         /\ consecutive_error_count_ = 1
         /\ api_result = WEBRTC_VIDEO_CODEC_ERROR

\* A Decode returns from an overflow before any drain has started.
C3_Witness ==
  /\ api_pc = "ret"
  /\ api_input.call = "Decode"
  /\ api_input.overflow
  /\ main_tasks = Len(admitted)
  /\ drain_pc = "idle"

\* A Decode of a non-key frame, begun after an overflow and before a key
\* frame has passed the key-frame rule since.
NonKeyAfterOverflow ==
  /\ api_input.call = "Decode"
  /\ ~api_input.key
  /\ ~api_input.overflow
  /\ overflow_wait = "armed"

C5_GatingAfterResume ==
  ~ /\ api_input.call = "Decode"
    /\ ~api_input.key
    /\ api_input.resume_wait
    /\ api_pc = "post"

\* C6 (EscSpec). Escalation: once the queue has overflowed more than
\* kMaxConsecutiveErrors times with no delivery in between, every Decode
\* that returns, returns FALLBACK_SOFTWARE.
C6_FallbackAfterEscalation ==
  ( /\ consecutive_error_count_ > kMaxConsecutiveErrors
    /\ api_pc = "ret"
    /\ api_input.call = "Decode" ) =>
    api_result = WEBRTC_VIDEO_CODEC_FALLBACK_SOFTWARE

\* C7 (Spec). No callback after Release: every frame passed to the callback
\* was admitted after the last Release returned.
C7_NoCallbackAfterRelease ==
  [][delivered' # delivered => Last(delivered') > release_mark]_vars

\* C8 (Spec). Release idempotence: in the state a Release leaves, a second
\* Release returns the status the first returned and leaves the queue, the
\* history, the key-frame flag, the counter and the availability as they
\* are.
C8_ReleaseIdempotent ==
  [][(api_pc = "release" /\ api_pc' = "ret") =>
       ReleaseEffect(DecoderState') =
         [state |-> DecoderState', status |-> api_result']]_vars

\* A Release that follows a Release, with no frame admitted in between, has
\* cleared the decoder and is about to return.
C8_Witness ==
  /\ api_pc = "ret"
  /\ api_input.call = "Release"
  /\ api_input.again

\* C9 (QueueSpec). Stale-result discard: when ReturnEncodedFrame has
\* finished with a frame, the frame was passed to the callback only if its
\* timestamp was in decode_timestamps_; a frame whose timestamp was not, was
\* passed to no callback and left consecutive_error_count_ as it was.
C9_StaleDiscard ==
  [][(drain_pc = "return" /\ drain_pc' # "return") =>
       LET ts == Head(drain_frames).ts
       IN /\ delivered' # delivered =>
               /\ Contains(decode_timestamps_, ts)
               /\ delivered' = Append(delivered, ts)
          /\ ~Contains(decode_timestamps_, ts) =>
               /\ delivered' = delivered
               /\ consecutive_error_count_' = consecutive_error_count_]_vars

\* A frame was discarded while the error counter was not zero.
C9_Witness ==
  /\ discarded # {}
  /\ consecutive_error_count_ > 0
  /\ drain_pc = "idle"

\* The result of a call that began while the decoder was unavailable.
UnavailableResult ==
  /\ (api_input.call = "Decode" /\ ~api_input.available) =>
       /\ api_pc = "ret"
       /\ api_result = WEBRTC_VIDEO_CODEC_FALLBACK_SOFTWARE
  /\ ( /\ api_input.call = "InitDecode"
       /\ ~api_input.available
       /\ api_input.codec_settings # "null" ) =>
       api_result = WEBRTC_VIDEO_CODEC_UNINITIALIZED
  /\ ( /\ api_input.call = "RegisterDecodeCompleteCallback"
       /\ ~api_input.available ) =>
       api_result = WEBRTC_VIDEO_CODEC_UNINITIALIZED
  /\ (api_input.call = "Release" /\ ~api_input.available /\ api_pc = "ret") =>
       api_result = WEBRTC_VIDEO_CODEC_UNINITIALIZED

\* C10 (Spec). Permanent fallback: once kPipelineError has made the decoder
\* unavailable it stays unavailable; every Decode begun from then on
\* returns FALLBACK_SOFTWARE without queueing or posting, and InitDecode
\* with settings, RegisterDecodeCompleteCallback and Release return
\* UNINITIALIZED.
C10_PermanentFallback ==
  /\ []UnavailableResult
  /\ [][~media_decoder_available_ => ~media_decoder_available_']_vars

\* A Decode begun after the pipeline error has returned.
C10_Witness ==
  /\ api_pc = "ret"
  /\ api_input.call = "Decode"
  /\ ~api_input.available

\* C11 (PlayerSpec). Initialization failure leads to fallback: once the
\* pipeline has answered Initialize with a status other than PIPELINE_OK,
\* the decoder is unavailable or is being told of a pipeline error, and no
\* frame is passed to Feed of a pipeline whose initialization failed.
C11_InitFailureFallsBack ==
  /\ (media_platform_api_ # 0 /\ api_init \in InitStatuses \ {"PIPELINE_OK"})
       => \/ ~media_decoder_available_
          \/ Contains(status_tasks, "kPipelineError")
  /\ \A i \in 1..Len(fed) : fed[i].init = "PIPELINE_OK"

\* C12 (PlayerSpec). Every runtime pipeline error reaches the decoder: a
\* step in which OnPipelineError records a status leaves a kPipelineError
\* notification posted to the decoder.
C12_EveryErrorTold ==
  [][(pipeline_status_' # pipeline_status_ /\
      pipeline_status_' \in PipelineStatuses) =>
       Contains(status_tasks', "kPipelineError")]_vars

\* C13 (Spec). Release clears the buffered state: when Release returns,
\* pending_frames_ and decode_timestamps_ are both empty.
C13_ReleaseClearsBuffers ==
  (api_pc = "ret" /\ api_input.call = "Release") =>
    /\ pending_frames_ = <<>>
    /\ decode_timestamps_ = <<>>

\* C14 (QueueSpec). Release resets the counter: when Release returns,
\* consecutive_error_count_ is zero.
C14_ReleaseResetsCounter ==
  (api_pc = "ret" /\ api_input.call = "Release") =>
    consecutive_error_count_ = 0

\* C15 (QueueSpec). Released is terminal: once a Release has returned, and
\* with no InitDecode since (QueueSpec has none), no Decode puts a frame in
\* pending_frames_, posts DecodeOnMediaThread, or has its frame passed to
\* the callback.
C15_ReleasedIsTerminal ==
  [][release_mark > 0 =>
       /\ Len(pending_frames_') <= Len(pending_frames_)
       /\ main_tasks' <= main_tasks
       /\ delivered' # delivered => Last(delivered') <= release_mark]_vars

\* C16 (HistorySpec). Timestamp-history bound: decode_timestamps_ never
\* holds more than kMaxDecodeHistory entries; when the drain records a
\* timestamp it becomes the newest entry behind the entries already there,
\* of which, at capacity, the oldest is evicted.
C16_HistoryBound ==
  /\ [](Len(decode_timestamps_) <= kMaxDecodeHistory)
  /\ [][drain_pc = "record" /\ drain_pc' # "record" =>
          LET ts == Head(drain_frames).ts
          IN decode_timestamps_' =
               IF Len(decode_timestamps_) = kMaxDecodeHistory
               THEN Append(Tail(decode_timestamps_), ts)
               ELSE Append(decode_timestamps_, ts)]_vars

\* The drain has recorded a timestamp in a full history: the oldest entry
\* is gone.
C16_Witness ==
  /\ drain_pc = "return"
  /\ Len(decode_timestamps_) = kMaxDecodeHistory
  /\ decode_timestamps_[1] > 1

\* C17 (CounterSpec). Counter reset on delivery: a step that passes a frame
\* to the callback leaves consecutive_error_count_ at zero, and any other
\* change of the counter adds one to its value, so that it counts only the
\* overflows since the most recent delivery.
C17_ResetOnDelivery ==
  /\ [][delivered' # delivered => consecutive_error_count_' = 0]_vars
  /\ [][(delivered' = delivered /\
         consecutive_error_count_' # consecutive_error_count_) =>
          consecutive_error_count_' = consecutive_error_count_ + 1]_vars

\* C18 (Spec). InitDecode contract: with null settings InitDecode returns
\* ERR_PARAMETER and leaves every field of the decoder as it was; with
\* settings it sets key_frame_required_ and returns OK if the decoder is
\* available, UNINITIALIZED if it is not; and only a Decode of a key frame
\* ends the key-frame requirement.
C18_InitDecodeContract ==
  /\ [][(api_pc = "idle" /\ api_input'.call = "InitDecode") =>
          IF api_input'.codec_settings = "null"
          THEN /\ api_result' = WEBRTC_VIDEO_CODEC_ERR_PARAMETER
               /\ UNCHANGED decoder_vars
          ELSE /\ key_frame_required_'
               /\ media_decoder_available_' = media_decoder_available_
               /\ media_decoder_available_ =>
                    api_result' = WEBRTC_VIDEO_CODEC_OK
               /\ ~media_decoder_available_ =>
                    api_result' = WEBRTC_VIDEO_CODEC_UNINITIALIZED]_vars
  /\ [][(key_frame_required_ /\ ~key_frame_required_') =>
          (api_input'.call = "Decode" /\ api_input'.key)]_vars

\* InitDecode with settings has re-armed the key-frame requirement of a
\* decoder that had admitted a frame, and reports it unavailable.
C18_Witness ==
  /\ api_pc = "ret"
  /\ api_input.call = "InitDecode"
  /\ api_input.codec_settings # "null"
  /\ admitted # <<>>
  /\ key_frame_required_
  /\ api_result = WEBRTC_VIDEO_CODEC_UNINITIALIZED

\* C19 (Spec). Rule 1 wins: a Decode of an unavailable decoder returns
\* FALLBACK_SOFTWARE whatever the frame, and leaves pending_frames_,
\* decode_timestamps_, key_frame_required_, frame_size_ and
\* consecutive_error_count_ as they were; a Decode of an available VP9
\* decoder with a spatial index above 0 returns FALLBACK_SOFTWARE even for
\* a missing, incomplete or unwanted non-key frame.
C19_RuleOrder ==
  [][(api_pc = "idle" /\ api_input'.call = "Decode") =>
       /\ ~media_decoder_available_ =>
            /\ api_pc' = "ret"
            /\ api_result' = WEBRTC_VIDEO_CODEC_FALLBACK_SOFTWARE
            /\ UNCHANGED <<pending_frames_, decode_timestamps_,
                           key_frame_required_, frame_size_,
                           consecutive_error_count_>>
       /\ ( /\ media_decoder_available_
            /\ video_codec_type_ = "kVideoCodecVP9"
            /\ api_input'.spatial > 0 ) =>
            /\ api_pc' = "ret"
            /\ api_result' = WEBRTC_VIDEO_CODEC_FALLBACK_SOFTWARE]_vars

\* An unavailable decoder, waiting for a key frame, was handed an incomplete
\* non-key frame and answered FALLBACK_SOFTWARE.
C19_Witness ==
  /\ api_pc = "ret"
  /\ api_input.call = "Decode"
  /\ ~api_input.available
  /\ ~api_input.complete
  /\ ~api_input.key
  /\ key_frame_required_
  /\ api_result = WEBRTC_VIDEO_CODEC_FALLBACK_SOFTWARE

\* C20 (Spec). Spatial-layer restriction: a Decode of an available decoder
\* initialised for VP9, with a spatial index above 0, returns
\* FALLBACK_SOFTWARE and leaves pending_frames_, the posted tasks and the
\* player's pipeline as they were; for another codec or spatial index 0 no
\* admission rule of an available decoder answers FALLBACK_SOFTWARE.
C20_SpatialLayerRule ==
  [][(api_pc = "idle" /\ api_input'.call = "Decode" /\
      media_decoder_available_) =>
       IF video_codec_type_ = "kVideoCodecVP9" /\ api_input'.spatial > 0
       THEN /\ api_pc' = "ret"
            /\ api_result' = WEBRTC_VIDEO_CODEC_FALLBACK_SOFTWARE
            /\ UNCHANGED <<pending_frames_, main_tasks, pipeline_vars>>
       ELSE api_result' # WEBRTC_VIDEO_CODEC_FALLBACK_SOFTWARE]_vars

\* An available decoder initialised for VP8 took a complete key frame of
\* spatial layer 1 past the admission rules.
C20_Witness ==
  /\ api_pc = "lock"
  /\ api_input.call = "Decode"
  /\ api_input.available
  /\ video_codec_type_ = "kVideoCodecVP8"
  /\ api_input.spatial > 0

\* C21 (Spec). Capability fallback is permanent: once a Decode has answered
\* FALLBACK_SOFTWARE by the spatial-layer rule, every later Decode answers
\* FALLBACK_SOFTWARE, whatever the frame's spatial index.
C21_CapabilityFallbackPermanent ==
  [][(api_pc = "idle" /\ api_input'.call = "Decode" /\ layer_fallback) =>
       api_result' = WEBRTC_VIDEO_CODEC_FALLBACK_SOFTWARE]_vars

\* C22 (Spec). Missing/incomplete rejection is side-effect free: a Decode
\* of an available decoder, of a frame the spatial-layer rule lets pass,
\* with missing_frames set or an incomplete frame, returns ERROR, leaves
\* pending_frames_, decode_timestamps_, key_frame_required_, frame_size_
\* and consecutive_error_count_ as they were and posts no drain task.
C22_BrokenFrameNoEffect ==
  [][( /\ api_pc = "idle"
       /\ api_input'.call = "Decode"
       /\ media_decoder_available_
       /\ ~(video_codec_type_ = "kVideoCodecVP9" /\ api_input'.spatial > 0)
       /\ (api_input'.missing \/ ~api_input'.complete) ) =>
       /\ api_pc' = "ret"
       /\ api_result' = WEBRTC_VIDEO_CODEC_ERROR
       /\ UNCHANGED <<pending_frames_, decode_timestamps_,
                      key_frame_required_, frame_size_,
                      consecutive_error_count_, main_tasks>>]_vars

\* An available decoder has refused an incomplete key frame whose size
\* differs from frame_size_: the size was not recorded.
C22_Witness ==
  /\ api_pc = "ret"
  /\ api_input.call = "Decode"
  /\ api_input.available
  /\ api_input.key
  /\ ~api_input.complete
  /\ ~api_input.missing
  /\ api_input.size # frame_size_
  /\ api_result = WEBRTC_VIDEO_CODEC_ERROR

\* C23 as stated (HealSpec): a complete key frame handed to an available
\* decoder passes the admission rules and clears key_frame_required_.
C23_KeyFrameAlwaysAccepted ==
  [][( /\ api_pc = "idle"
       /\ api_input'.call = "Decode"
       /\ media_decoder_available_
       /\ api_input'.key
       /\ api_input'.complete
       /\ ~api_input'.missing ) =>
       /\ api_pc' = "lock"
       /\ ~key_frame_required_']_vars

\* C23 (HealSpec). Transient errors self-heal: whatever was rejected
\* before, a complete key frame that the spatial-layer rule lets pass,
\* handed to an available decoder, clears key_frame_required_ and records
\* its size, and goes on to the queue unless its data cannot be wrapped
\* (NO_OUTPUT); a frame that finds room in pending_frames_ is pushed, a
\* drain is posted and Decode returns OK; and while key_frame_required_ is
\* clear a complete non-key frame whose data can be wrapped goes on to the
\* queue as well.
C23_SelfHeal ==
  /\ [][( /\ api_pc = "idle"
          /\ api_input'.call = "Decode"
          /\ media_decoder_available_
          /\ api_input'.complete
          /\ ~api_input'.missing
          /\ ~(video_codec_type_ = "kVideoCodecVP9" /\
               api_input'.spatial > 0) ) =>
          /\ api_input'.key =>
               /\ ~key_frame_required_'
               /\ frame_size_' = api_input'.size
               /\ IF api_input'.size # 0
                    THEN api_pc' = "lock"
                    ELSE /\ api_pc' = "ret"
                         /\ api_result' = WEBRTC_VIDEO_CODEC_NO_OUTPUT
          /\ (~api_input'.key /\ ~key_frame_required_ /\ frame_size_ # 0) =>
               api_pc' = "lock"]_vars
  /\ [][( /\ api_pc = "queue"
          /\ api_pc' # "queue"
          /\ Len(pending_frames_) < kMaxPendingFrames ) =>
          /\ api_pc' = "post"
          /\ pending_frames_' =
               Append(pending_frames_,
                      [ts |-> api_input.ts, key |-> api_input.key])]_vars
  /\ [][(api_pc = "post" /\ api_pc' # "post") =>
          /\ api_pc' = "ret"
          /\ api_result' = WEBRTC_VIDEO_CODEC_OK
          /\ main_tasks' = main_tasks + 1]_vars

\* After an overflow a key frame has been pushed and Decode is returning
\* OK, with the key-frame requirement cleared.
C23_Witness ==
  /\ api_pc = "ret"
  /\ api_input.call = "Decode"
  /\ api_input.key
  /\ api_result = WEBRTC_VIDEO_CODEC_OK
  /\ dropped # {}
  /\ ~key_frame_required_
  /\ Len(pending_frames_) > 0
  /\ Last(pending_frames_).ts = api_input.ts

\* C24 (OverflowSpec). Single in-flight drain: at any time at most one
\* DecodeOnMediaThread task is posted or running.
C24_SingleDrain ==
  main_tasks + (IF drain_pc \in {"swap", "record", "return"} THEN 1 ELSE 0)
    <= 1

\* C25 (Spec). Single-mutex protection: the drain reads and writes
\* decode_timestamps_ only while it holds lock_, so Release is never about
\* to clear the history while the drain is about to evict from, append to
\* or search it.
C25_SingleMutex ==
  /\ drain_pc \in {"record", "return"} => lock_ = "main"
  /\ ~(api_pc = "release" /\ drain_pc \in {"record", "return"})

\* C26 (CounterSpec). The lock is never held across delivery: the drain
\* holds lock_ exactly while it is at the swap, and not while it records
\* timestamps or hands frames on; the caller holds lock_ exactly between
\* taking it and the end of the check/clear/push block; so a Decode that
\* is about to take lock_ while the drain is recording or delivering finds
\* it free.
C26_LockNotHeldAcrossDelivery ==
  /\ lock_ = "main" <=> drain_pc = "swap"
  /\ lock_ = "caller" <=> api_pc \in {"queue", "count"}
  /\ (api_pc = "lock" /\ drain_pc \in {"record", "return"}) => lock_ = "free"

\* A Decode is inside its locked block while the drain is about to hand a
\* frame to the callback.
C26_Witness ==
  /\ api_pc = "queue"
  /\ lock_ = "caller"
  /\ drain_pc = "return"

\* C27: no frame is fed to a pipeline before that pipeline has reported a
\* successful initialization: every frame passed to MediaPlatformAPI::Feed
\* reached a pipeline that had answered Initialize with PIPELINE_OK, the
\* first pipeline and every pipeline made after a codec change alike.
C27_FeedAfterInit ==
  \A i \in 1..Len(fed) : fed[i].api # 0 /\ fed[i].init = "PIPELINE_OK"

\* The media_tasks a HandleEncodedFrame leaves when it posts no
\* InitMediaPlatformAPI: the same, or one OnPipelineFeed more.
NoInitPosted ==
  \/ media_tasks' = media_tasks
  \/ media_tasks' = Append(media_tasks, "OnPipelineFeed")

\* C28 as stated: a HandleEncodedFrame makes a pipeline, and posts its
\* initialization, only for a key frame while there is no pipeline for the
\* frame's codec; for a non-key frame in that situation it makes nothing
\* and posts a key-frame request to the decoder.
C28_KeyFrameGateAlways ==
  [][render_tasks # <<>> /\ render_tasks' = Tail(render_tasks) =>
       LET frame == Head(render_tasks)
           none == media_platform_api_ = 0 \/ video_codec_ # frame.codec
       IN /\ media_platform_api_' # media_platform_api_ \/ ~NoInitPosted =>
               frame.key /\ none
          /\ none /\ ~frame.key =>
               /\ media_platform_api_' = media_platform_api_
               /\ status_tasks' = Append(status_tasks, "kKeyFrameRequest")]_vars

\* C28, amended: the same for every HandleEncodedFrame that runs while
\* pipeline_status_ is PIPELINE_OK, where a made pipeline is a new one with
\* Initialize not yet called and InitMediaPlatformAPI posted for it; a
\* HandleEncodedFrame that runs under another status makes and posts
\* nothing.
C28_KeyFrameGate ==
  [][render_tasks # <<>> /\ render_tasks' = Tail(render_tasks) =>
       LET frame == Head(render_tasks)
           none == media_platform_api_ = 0 \/ video_codec_ # frame.codec
       IN IF pipeline_status_ = "PIPELINE_OK"
            THEN /\ media_platform_api_' # media_platform_api_ =>
                      /\ frame.key /\ none
                      /\ media_platform_api_' = media_platform_api_ + 1
                      /\ video_codec_' = frame.codec
                      /\ api_init' = "none"
                      /\ \E i \in 1..Len(media_tasks') :
                           /\ i > Len(media_tasks)
                           /\ media_tasks'[i] = "InitMediaPlatformAPI"
                 /\ ~NoInitPosted => frame.key /\ none
                 /\ none /\ ~frame.key =>
                      /\ media_platform_api_' = media_platform_api_
                      /\ status_tasks' =
                           Append(status_tasks, "kKeyFrameRequest")
            ELSE UNCHANGED <<media_platform_api_, media_tasks,
                             status_tasks>>]_vars

\* C28 witness: a second pipeline was made for a key frame of another
\* codec, and a key-frame request posted by HandleEncodedFrame is waiting.
C28_Witness ==
  /\ media_platform_api_ = 2
  /\ status_tasks # <<>>
  /\ Last(status_tasks) = "kKeyFrameRequest"

\* C29: on a codec change the pipeline is finalized and the media thread
\* drained before another pipeline is made, so that no frame is ever fed to
\* a finalized pipeline: no frame was passed to Feed of a pipeline on which
\* Finalize had been called.
C29_NoFeedToFinalized ==
  \A i \in 1..Len(fed) : fed[i].api # 0 /\ fed[i].init # "finalized"

\* C30: once SuspendInternal has returned and until the player is resumed,
\* the pending encoded-frame buffer is empty and no frame is buffered or
\* fed: every step that leaves the player suspended leaves
\* pending_encoded_frames_ empty and passes nothing to Feed.
C30_SuspendClearsPending ==
  [][is_suspended_' => pending_encoded_frames_' = <<>> /\ fed' = fed]_vars

\* A teardown is waiting for the media thread.
TeardownWaiting == api_init \in {"finalized", "releasing"}

\* C31: the pipeline handle is cleared or replaced only by a teardown whose
\* wait found every task posted to the media thread run, and a teardown
\* that waits ends its wait.
C31_SynchronousTeardown ==
  /\ [][media_platform_api_ # 0 /\ media_platform_api_' # media_platform_api_
          => TeardownWaiting /\ media_tasks = <<>>]_vars
  /\ (TeardownWaiting ~> ~TeardownWaiting)

\* C31 witness: ReleaseMediaPlatformAPI has cleared the handle of a second
\* pipeline, the first one replaced on a codec change.
C31_Witness ==
  /\ is_destroying_
  /\ media_platform_api_ = 0
  /\ video_codec_ = OtherCodecId

\* C32: every call into the external pipeline is made from the media
\* thread: a step in which Initialize, Feed or Finalize is called on the
\* pipeline is the step of a task taken from media_task_runner_.
C32_CallsOnMediaThread ==
  [][\/ api_init' = "pending" /\ api_init # "pending"
     \/ fed' # fed
     \/ api_init' \in {"finalized", "releasing"} /\ api_init' # api_init
     => media_tasks # <<>> /\ media_tasks' = Tail(media_tasks)]_vars

\* C33: the overflow branch of Decode increments consecutive_error_count_
\* by exactly one with the key-frame requirement armed; it answers ERROR
\* and leaves decode_timestamps_ as it is while the incremented counter is
\* at most kMaxConsecutiveErrors, and answers FALLBACK_SOFTWARE and clears
\* decode_timestamps_ once it is above.
C33_OverflowEffect ==
  [][api_pc = "count" /\ api_pc' = "ret" =>
       /\ consecutive_error_count_' = consecutive_error_count_ + 1
       /\ key_frame_required_'
       /\ IF consecutive_error_count_' <= kMaxConsecutiveErrors
            THEN /\ api_result' = WEBRTC_VIDEO_CODEC_ERROR
                 /\ decode_timestamps_' = decode_timestamps_
            ELSE /\ api_result' = WEBRTC_VIDEO_CODEC_FALLBACK_SOFTWARE
                 /\ decode_timestamps_' = <<>>]_vars

\* The history that the eviction of lines 273-274 leaves of `history`: its
\* newest entries, fewer than kMaxDecodeHistory.
EvictedBelowCapacity(history) ==
  LET keep == IF Len(history) < kMaxDecodeHistory
              THEN Len(history)
              ELSE kMaxDecodeHistory - 1
  IN SubSeq(history, Len(history) - keep + 1, Len(history))

\* The swap and the record step of a drain: the swap takes the whole queue
\* and leaves it empty, and on an empty queue ends the drain with nothing
\* else changed; the record step evicts and then appends the timestamp of
\* the oldest taken frame, delivering nothing yet.
DrainTakesAndRecords ==
  /\ drain_pc = "swap" /\ drain_pc' # "swap" =>
       /\ drain_frames' = pending_frames_
       /\ pending_frames_' = <<>>
       /\ pending_frames_ = <<>> =>
            /\ drain_pc' = "idle"
            /\ UNCHANGED <<decode_timestamps_, consecutive_error_count_,
                           key_frame_required_, delivered, discarded,
                           to_player>>
  /\ drain_pc = "record" /\ drain_pc' # "record" =>
       /\ drain_pc' = "return"
       /\ decode_timestamps_' =
            Append(EvictedBelowCapacity(decode_timestamps_),
                   Head(drain_frames).ts)
       /\ UNCHANGED <<drain_frames, delivered, discarded>>

\* C34 as stated: a drain takes the whole queue, and for each taken frame
\* in order evicts, appends the timestamp and then delivers the frame; a
\* drain of an empty queue changes nothing.
C34_DrainDelivers ==
  [][/\ DrainTakesAndRecords
     /\ drain_pc = "return" /\ drain_pc' # "return" =>
          /\ delivered' = Append(delivered, Head(drain_frames).ts)
          /\ drain_frames' = Tail(drain_frames)
          /\ drain_pc' = IF drain_frames' = <<>> THEN "idle" ELSE "record"]_vars

\* C34, amended: the same, where the last step for each frame is
\* ReturnEncodedFrame, which delivers the frame if its timestamp is still
\* in the history and discards it if the history was cleared meanwhile.
C34_DrainOrder ==
  [][/\ DrainTakesAndRecords
     /\ drain_pc = "return" /\ drain_pc' # "return"
          /\ decode_complete_callback_ # "null" =>
          /\ IF Contains(decode_timestamps_, Head(drain_frames).ts)
               THEN /\ delivered' = Append(delivered, Head(drain_frames).ts)
                    /\ discarded' = discarded
               ELSE /\ delivered' = delivered
                    /\ discarded' = discarded \cup {Head(drain_frames).ts}
          /\ drain_frames' = Tail(drain_frames)
          /\ drain_pc' = IF drain_frames' = <<>> THEN "idle" ELSE "record"]_vars

\* C34 witness: the history has evicted for a delivered frame, and a later
\* drain has discarded a frame after a Release.
C34_Witness ==
  /\ Len(delivered) > kMaxDecodeHistory
  /\ discarded # {}

\* The timestamps of the frames on their way through the player, oldest
\* first: fed, buffered, waiting for HandleEncodedFrame, waiting for
\* HandleVideoFrame.
PlayerFrames ==
  Timestamps(fed) \o Timestamps(pending_encoded_frames_)
    \o Timestamps(render_tasks) \o Timestamps(to_player)

\* C35: frames are fed to the pipeline in the order HandleEncodedFrame
\* received them, each at most once, over any number of OnPipelineFeed
\* tasks: the decoder hands its frames over with increasing timestamps, and
\* the fed frames, then the buffered ones, then those still to be handled
\* are in increasing order of timestamp.
C35_FeedOrder ==
  \A i, j \in 1..Len(PlayerFrames) : i < j => PlayerFrames[i] < PlayerFrames[j]

\* C35 witness: an OnPipelineFeed has fed two frames, and another
\* OnPipelineFeed is about to feed a frame buffered since.
C35_Witness ==
  /\ Len(fed) = 2
  /\ Len(pending_encoded_frames_) = 1
  /\ media_tasks # <<>>
  /\ Head(media_tasks) = "OnPipelineFeed"
  /\ ~is_suspended_

\* The admitted frames that were neither passed to the callback nor
\* dropped by an overflow or a Release nor discarded as stale.
Unsettled ==
  Range(admitted) \ (Range(delivered) \cup dropped \cup discarded)

\* C36: with the drain tasks scheduled fairly, every frame for which Decode
\* returned OK is in the end passed to the callback or dropped by an
\* overflow or a Release: whenever a Decode has returned with frames
\* unsettled, a state follows in which every admitted frame is settled.
C36_EventualDelivery ==
  (api_pc = "idle" /\ Unsettled # {}) ~> (Unsettled = {})

\* C36 witness: frames were dropped by an overflow or a Release, a frame
\* admitted after them was delivered, and no admitted frame is unsettled.
C36_Witness ==
  /\ dropped # {}
  /\ Unsettled = {}
  /\ \E i \in 1..Len(delivered) : \A ts \in dropped : delivered[i] > ts

\* C37: Decode returns OK if and only if it has appended exactly one frame
\* to pending_frames_ and posted exactly one drain: a step of the call
\* appends only its own frame, a drain is posted only by the step that
\* follows the append and sets the result to OK, one at a time, and a
\* Decode returns OK exactly when the last admitted frame is its own.
C37_ResultMatchesEffect ==
  [][api_input.call = "Decode" /\ api_pc' # api_pc =>
       /\ admitted' # admitted =>
            /\ admitted' = Append(admitted, api_input.ts)
            /\ pending_frames_' =
                 Append(pending_frames_,
                        [ts |-> api_input.ts, key |-> api_input.key])
            /\ api_pc' = "post"
       /\ main_tasks' > main_tasks => api_pc = "post"
       /\ api_pc = "post" =>
            /\ main_tasks' = main_tasks + 1
            /\ Last(admitted) = api_input.ts
       /\ api_pc = "ret" =>
            (api_result = WEBRTC_VIDEO_CODEC_OK <=>
               admitted # <<>> /\ Last(admitted) = api_input.ts)
       /\ api_pc = "ret" /\ api_result # WEBRTC_VIDEO_CODEC_OK =>
            api_result \in {WEBRTC_VIDEO_CODEC_FALLBACK_SOFTWARE,
                            WEBRTC_VIDEO_CODEC_ERROR,
                            WEBRTC_VIDEO_CODEC_NO_OUTPUT}]_vars

\* C37 witness: after an overflow, which returned ERROR and dropped the
\* queue, a Decode has pushed its frame, posted its drain and is about to
\* return OK.
C37_Witness ==
  /\ api_pc = "ret"
  /\ api_input.call = "Decode"
  /\ api_result = WEBRTC_VIDEO_CODEC_OK
  /\ dropped # {}


\* C38 (HealSpec). State unchanged on NO_OUTPUT: a Decode whose data
\* cannot be wrapped and that answers NO_OUTPUT leaves key_frame_required_
\* and frame_size_ as they were before the call, so that a key frame
\* failing this way does not clear an armed key-frame requirement.
C38_NoOutputLeavesState ==
  [][( /\ api_pc = "idle"
       /\ api_input'.call = "Decode"
       /\ api_pc' = "ret"
       /\ api_result' = WEBRTC_VIDEO_CODEC_NO_OUTPUT ) =>
       /\ key_frame_required_' = key_frame_required_
       /\ frame_size_' = frame_size_]_vars


\* C39 (Spec). Callback is registered before use: whatever the order of
\* RegisterDecodeCompleteCallback, InitDecode, Decode and the drain, when
\* ReturnEncodedFrame takes a frame whose timestamp is in
\* decode_timestamps_, decode_complete_callback_ has been registered: the
\* step invokes a callback and never a null one.
C39_CallbackRegistered ==
  [][( /\ drain_pc = "return"
       /\ drain_pc' # "return" \/ drain_frames' # drain_frames
       /\ IsDelivered(decode_timestamps_,
                      NextPendingFrame(drain_frames).ts) ) =>
       /\ decode_complete_callback_ # "null"
       /\ drain_pc' # "crashed"
       /\ delivered' = Append(delivered, NextPendingFrame(drain_frames).ts)]_vars


\* C40 (CounterSpec). Error counter updates do not race: the increment of
\* consecutive_error_count_ by an overflowing Decode and its reset by a
\* delivery exclude each other, that is, no frame is delivered between the
\* increment's read of the counter and its write, and the increment
\* writes one more than the value the counter holds at that moment, so
\* that no update is lost.
C40_CounterUpdatesExclusive ==
  /\ [][delivered' # delivered => api_pc # "count"]_vars
  /\ [][(api_pc = "count" /\ api_pc' # "count") =>
          /\ api_input.count = consecutive_error_count_
          /\ consecutive_error_count_' = api_input.count + 1]_vars

====
